---- MODULE Spec2Model ----
(***************************************************************************)
(* A model of the request handlers of tfc-backend: app_class/views.py      *)
(* (classes and their student rosters), app_schedule/views.py (schedules)  *)
(* and app_auth/views.py (login and token refresh).                        *)
(* Every handler runs to completion on one request, so each                *)
(* handler is one action; the store is the database tables, and resp is    *)
(* the request that was just handled together with its HTTP response.      *)
(***************************************************************************)
EXTENDS Integers, Sequences, FiniteSets, TLC

(***************************************************************************)
(* Bounds of the model.                                                    *)
(***************************************************************************)
\* identifier lists (std_uuids / uuids) hold 1..MaxLen pieces
MaxLen == 2
\* number of times a Schedule row is saved (creations and edits)
MaxSaves == 2
\* number of successful logins
MaxLogins == 2

(***************************************************************************)
(* HTTP status codes (rest_framework.status).                              *)
(***************************************************************************)
HTTP_200_OK == 200
HTTP_201_CREATED == 201
HTTP_202_ACCEPTED == 202
HTTP_304_NOT_MODIFIED == 304
HTTP_400_BAD_REQUEST == 400
HTTP_404_NOT_FOUND == 404
HTTP_401_UNAUTHORIZED == 401
\* an exception no handler catches: Django answers 500
HTTP_500_UNHANDLED == 500

\* request.POST.get(...) of a parameter that was not sent
None == "None"

(***************************************************************************)
(* The fixed tables: MyUser rows and Course rows.                          *)
(***************************************************************************)
\* uuids (canonical form) of the rows of MyUser
Users == {"u1", "u2"}
\* names of the rows of Course
Courses == {"c1", "c2"}
\* course_name values a request may carry ("c9" names no course)
CourseNames == Courses \cup {"c9"}
\* class names a request may carry
ClassNames == {"n1", "n2"}

(***************************************************************************)
(* Identifier lists.  A request carries one string; the handlers remove    *)
(* the spaces and split at the commas.  A piece is a uuid in canonical     *)
(* form, the same uuid in another accepted form (upper case), a            *)
(* well-formed uuid of no user ("u3"), or no uuid at all ("zz").           *)
(***************************************************************************)
RawPieces == {"u1", " u2", "u3", "U1", "zz"}

\* str.replace(' ', '') on one piece of the list
StripSpaces(p) == IF p = " u2" THEN "u2" ELSE p

\* std_uuids.replace(' ', '').split(',')
SplitList(raw) == [i \in 1..Len(raw) |-> StripSpaces(raw[i])]

\* UUIDField.to_python: uuid.UUID(hex) accepts upper case; "Invalid" stands
\* for the ValidationError
ParseUUID(s) ==
    CASE s \in {"u1", "U1"} -> "u1"
      [] s = "u2" -> "u2"
      [] s = "u3" -> "u3"
      [] OTHER -> "Invalid"

\* str(uuid): the canonical form
StrUUID(u) == u

\* the lists a request may carry: absent, or 1..MaxLen pieces
RawLists == UNION {[1..n -> RawPieces] : n \in 1..MaxLen}
ListParams == {[given |-> FALSE, raw |-> <<>>]}
                \cup {[given |-> TRUE, raw |-> r] : r \in RawLists}

\* the elements of a sequence
Range(s) == {s[i] : i \in 1..Len(s)}

\* filter(uuid__in=[...]) raises ValidationError when a piece is no uuid
AllWellFormed(toks) == \A i \in 1..Len(toks) : ParseUUID(toks[i]) # "Invalid"

\* the uuids a list of pieces names
ParsedSet(toks) == {ParseUUID(toks[i]) : i \in 1..Len(toks)}

VARIABLES
    classes,    \* ClassMetadata rows, in order of their primary key
    scheds,     \* Schedule rows (a set of records, keyed by uuid)
    clock,      \* number of timestamps handed out so far
    last_login, \* CustomUser.last_login of every user (0: NULL, never)
    inflight,   \* per worker: the edit_sched request it is in the middle of
    resp        \* the request being answered and its response, or Idle

vars == <<classes, scheds, clock, last_login, inflight, resp>>

\* no request is being handled
Idle == [op |-> "idle"]

\* the server's workers that handle requests at the same time
Workers == {"w1", "w2"}

\* a worker that has not taken its request yet
Waiting == [pc |-> "waiting"]

\* primary keys of the ClassMetadata rows
ClassIds == 1..Len(classes)

\* ClassMetadata.objects.get(name=...): the rows that match
ClassesNamed(n) == {k \in ClassIds : classes[k].name = n}

\* datetime.datetime.now().timestamp(): a later value on every reading
Now == clock + 1

\* the readings of the clock that went to Schedule rows: every class took
\* one reading when it was created (course is unique, so the classes are at
\* most as many as the courses), every other reading was a schedule save
\* (logins read the clock too; they are explored apart, in SpecAuth)
SchedSaves == clock - Len(classes)

\* Response(data=..., status=...)
Response(op, req, code, data) ==
    [op |-> op, req |-> req, status |-> code, data |-> data]

\* a response that carries no data the model looks at
NoData == <<>>

Init ==
    /\ classes = <<>>
    /\ scheds = {}
    /\ clock = 0
    /\ last_login = [u \in Users |-> 0]
    /\ inflight = [w \in Workers |-> Waiting]
    /\ resp = Idle

\* the response leaves the server and the worker takes the next request
Respond ==
    /\ resp # Idle
    /\ resp' = Idle
    /\ UNCHANGED <<classes, scheds, clock, last_login, inflight>>

(***************************************************************************)
(* create_class                                                            *)
(***************************************************************************)
\* teacher_uuid values a request may carry
TeacherParams == {None, "u1", "u3", "zz"}
StatusParams == {None, "open"}
NameParams == {None} \cup ClassNames

\* classMeta.full_clean(): name and status are required (TextField) and
\* course is a OneToOneField, so no other row may hold the same course
ClassFullCleanOk(name, status, course, self) ==
    /\ name \notin {None, ""}
    /\ status \notin {None, ""}
    /\ \A k \in ClassIds \ {self} : classes[k].course # course

\* a lookup that yields nothing unless every piece resolves
UsersIn_AllOrNone(toks) ==
    IF ParsedSet(toks) \subseteq Users THEN ParsedSet(toks) ELSE {}

\* MyUser.objects.filter(uuid__in=...): the rows the pieces resolve to
UsersIn(toks) == Users \cap ParsedSet(toks)

\* the step of create_class at which the request ends
CreateClassOutcome(course_name, name, teacher, status, std) ==
    IF course_name \notin Courses THEN "no_course"
    ELSE IF teacher # None /\ ParseUUID(teacher) = "Invalid" THEN "bad_teacher"
    ELSE IF teacher # None /\ ParseUUID(teacher) \notin Users THEN "no_teacher"
    ELSE IF ~ClassFullCleanOk(name, status, course_name, 0) THEN "invalid"
    ELSE IF std.given /\ ~AllWellFormed(SplitList(std.raw)) THEN "bad_uuid"
    ELSE "created"

\* the status of the response create_class ends with
CreateClassStatus(outcome) ==
    CASE outcome \in {"no_course", "no_teacher"} -> HTTP_404_NOT_FOUND
      [] outcome \in {"bad_teacher", "invalid", "bad_uuid"} -> HTTP_400_BAD_REQUEST
      [] OTHER -> HTTP_201_CREATED

create_class(course_name, name, teacher, status, std) ==
    LET req == [course_name |-> course_name, name |-> name,
                teacher_uuid |-> teacher, status |-> status, std_uuids |-> std]
        outcome == CreateClassOutcome(course_name, name, teacher, status, std)
        students == IF std.given THEN UsersIn(SplitList(std.raw)) ELSE {}
    IN
    /\ resp = Idle
    /\ IF outcome # "created"
       THEN /\ resp' = Response("create_class", req, CreateClassStatus(outcome),
                                [outcome |-> outcome])
            /\ UNCHANGED <<classes, scheds, clock, last_login, inflight>>
       ELSE /\ classes' = Append(classes,
                   [uuid |-> Len(classes) + 1,
                    course |-> course_name,
                    name |-> name,
                    teacher |-> IF teacher = None THEN None ELSE ParseUUID(teacher),
                    status |-> status,
                    created_at |-> Now,
                    updated_at |-> Now,
                    students |-> students])
            /\ clock' = Now
            /\ resp' = Response("create_class", req, CreateClassStatus(outcome),
                                [outcome |-> outcome,
                                 teacher_added |-> teacher # None,
                                 students_added |->
                                     IF std.given THEN students ELSE None])
            /\ UNCHANGED <<scheds, last_login, inflight>>

(***************************************************************************)
(* add_student and delete_student                                          *)
(***************************************************************************)
\* classMeta.students.filter(uuid__in=...): the enrolled rows that match
EnrolledIn(roster, toks) == roster \cap ParsedSet(toks)

\* [str(o) for o in students.values_list('uuid', flat=True)]
StrUUIDs(students) == {StrUUID(u) : u \in students}

\* ClassMetadata.objects.get(name=...) and what follows when it is not one row
ClassLookup(name) ==
    IF ClassesNamed(name) = {} THEN "DoesNotExist"
    ELSE IF Cardinality(ClassesNamed(name)) > 1 THEN "MultipleObjectsReturned"
    ELSE "found"

TheClassNamed(name) == CHOOSE k \in ClassesNamed(name) : TRUE

\* classes with the roster of row k replaced
WithRoster(k, roster) == [classes EXCEPT ![k].students = roster]

add_student(name, std) ==
    LET req == [name |-> name, uuids |-> std]
        toks == SplitList(std.raw)
    IN
    /\ resp = Idle
    /\ UNCHANGED <<scheds, clock, last_login, inflight>>
    /\ CASE ClassLookup(name) = "DoesNotExist" ->
              /\ resp' = Response("add_student", req, HTTP_404_NOT_FOUND, NoData)
              /\ UNCHANGED classes
         [] ClassLookup(name) = "MultipleObjectsReturned" ->
              /\ resp' = Response("add_student", req, HTTP_500_UNHANDLED, NoData)
              /\ UNCHANGED classes
         [] OTHER ->
              IF ~std.given
              THEN \* students is never bound: UnboundLocalError
                   /\ resp' = Response("add_student", req, HTTP_500_UNHANDLED, NoData)
                   /\ UNCHANGED classes
              ELSE IF ~AllWellFormed(toks)
              THEN /\ resp' = Response("add_student", req, HTTP_400_BAD_REQUEST, NoData)
                   /\ UNCHANGED classes
              ELSE /\ classes' = WithRoster(TheClassNamed(name),
                          classes[TheClassNamed(name)].students \cup UsersIn(toks))
                   /\ resp' = Response("add_student", req, HTTP_202_ACCEPTED,
                                       [students_added |-> UsersIn(toks)])

\* a guard that stops only when no piece matched
PartialMatch_NoneFound(roster, toks) == EnrolledIn(roster, toks) = {}

\* len(uuids) != len(std_uuids): not every piece matched an enrolled row
PartialMatch(roster, toks) == Cardinality(EnrolledIn(roster, toks)) # Len(toks)

\* 'not_found': set(std_uuids).difference(set(uuids))
NotFound(roster, toks) == Range(toks) \ StrUUIDs(EnrolledIn(roster, toks))

\* classMeta.students.remove(*students.values_list('pk', flat=True))
RosterAfterRemove(roster, toks) == roster \ EnrolledIn(roster, toks)

\* the status of the partial-match response: Response(data=...) names none,
\* so it is the default
PartialMatchStatus == HTTP_200_OK

delete_student(name, std) ==
    LET req == [name |-> name, uuids |-> std]
        toks == SplitList(std.raw)
    IN
    /\ resp = Idle
    /\ UNCHANGED <<scheds, clock, last_login, inflight>>
    /\ CASE ClassLookup(name) = "DoesNotExist" ->
              /\ resp' = Response("delete_student", req, HTTP_404_NOT_FOUND, NoData)
              /\ UNCHANGED classes
         [] ClassLookup(name) = "MultipleObjectsReturned" ->
              /\ resp' = Response("delete_student", req, HTTP_500_UNHANDLED, NoData)
              /\ UNCHANGED classes
         [] OTHER ->
              LET k == TheClassNamed(name)
                  roster == classes[k].students
              IN
              IF ~std.given
              THEN \* students is never bound: UnboundLocalError
                   /\ resp' = Response("delete_student", req, HTTP_500_UNHANDLED, NoData)
                   /\ UNCHANGED classes
              ELSE IF ~AllWellFormed(toks)
              THEN /\ resp' = Response("delete_student", req, HTTP_400_BAD_REQUEST, NoData)
                   /\ UNCHANGED classes
              ELSE IF PartialMatch(roster, toks)
              THEN /\ resp' = Response("delete_student", req, PartialMatchStatus,
                                       [details |-> "Error",
                                        not_found |-> NotFound(roster, toks)])
                   /\ UNCHANGED classes
              ELSE /\ resp' = Response("delete_student", req, HTTP_202_ACCEPTED,
                                       [details |-> "Ok"])
                   /\ classes' = WithRoster(k, RosterAfterRemove(roster, toks))

(***************************************************************************)
(* The roster requests: classes are created with student lists, students   *)
(* are added and removed.                                                  *)
(***************************************************************************)
NextRoster ==
    \/ Respond
    \/ \E c \in CourseNames, n \in ClassNames, l \in ListParams :
           create_class(c, n, None, "open", l)
    \/ \E n \in ClassNames, l \in ListParams : add_student(n, l)
    \/ \E n \in ClassNames, l \in ListParams : delete_student(n, l)

SpecRoster == Init /\ [][NextRoster]_vars

(***************************************************************************)
(* edit_class                                                              *)
(***************************************************************************)
\* name values an edit or create request may carry ("" is a blank name)
Blank == ""

\* the fields edit_class assigns, in the order of its if statements
\* (views.py:300-311), for the parameters that were sent
ClassModifiedFields(name, course, teacher, status) ==
    (IF name # None THEN <<"name">> ELSE <<>>)
      \o (IF course # None THEN <<"course">> ELSE <<>>)
      \o (IF teacher # None THEN <<"teacher">> ELSE <<>>)
      \o (IF status # None THEN <<"status">> ELSE <<>>)

\* if bool(modifiedList): stamp updated_at and append its name
WithUpdatedAt(modifiedList) ==
    IF modifiedList # <<>> THEN Append(modifiedList, "updated_at")
    ELSE modifiedList

\* The step of edit_class at which the request ends.  The function assigns
\* status = request.POST.get('status'), so inside it the name status is that
\* str (or None) and never rest_framework.status: every Response(...,
\* status=status.HTTP_...) raises AttributeError, the successful one too.
\* MyUser.objects.get(name=course) looks a user up by a course name: it
\* raises, or yields a user that classMeta.course refuses (ValueError).
EditClassOutcome(class_name, name, course, teacher, status) ==
    IF ClassLookup(class_name) = "DoesNotExist" THEN "no_class"
    ELSE IF ClassLookup(class_name) = "MultipleObjectsReturned" THEN "many_classes"
    ELSE IF teacher # None /\ ParseUUID(teacher) \notin Users THEN "no_teacher"
    ELSE IF course # None THEN "bad_course"
    ELSE IF ~ClassFullCleanOk(
                IF name = None THEN classes[TheClassNamed(class_name)].name
                ELSE name,
                IF status = None THEN classes[TheClassNamed(class_name)].status
                ELSE status,
                classes[TheClassNamed(class_name)].course,
                TheClassNamed(class_name)) THEN "invalid"
    ELSE "answered"

\* the status the client sees: every path of edit_class ends in an
\* exception that nothing catches
EditClassStatus(outcome) == HTTP_500_UNHANDLED

\* the rows of ClassMetadata after edit_class: the function never calls
\* classMeta.save(), the edited object is dropped with the request
ClassesAfterEdit(outcome) == classes

EditClass(req, again) ==
    LET outcome == EditClassOutcome(req.class_name, req.name, req.course_name,
                                    req.teacher_uuid, req.status)
        reached == outcome \in {"invalid", "answered"}
    IN
    /\ classes' = ClassesAfterEdit(outcome)
    /\ resp' = Response("edit_class", req, EditClassStatus(outcome),
                [outcome |-> outcome,
                 again |-> again,
                 modifiedList |->
                     IF reached
                     THEN WithUpdatedAt(ClassModifiedFields(req.name,
                              req.course_name, req.teacher_uuid, req.status))
                     ELSE <<>>])
    /\ UNCHANGED <<scheds, clock, last_login, inflight>>

edit_class(class_name, name, course, teacher, status) ==
    /\ resp = Idle
    /\ EditClass([class_name |-> class_name, name |-> name,
                  course_name |-> course, teacher_uuid |-> teacher,
                  status |-> status], FALSE)

\* the client sends the request it has just sent once more
edit_class_again ==
    /\ resp.op = "edit_class"
    /\ ~resp.data.again
    /\ EditClass(resp.req, TRUE)

(***************************************************************************)
(* delete_class                                                            *)
(***************************************************************************)
\* the step of delete_class at which the request ends
DeleteClassOutcome(name) ==
    IF ClassLookup(name) = "DoesNotExist" THEN "no_class"
    ELSE IF ClassLookup(name) = "MultipleObjectsReturned" THEN "many_classes"
    ELSE "answered"

DeleteClassStatus(outcome) ==
    CASE outcome = "no_class" -> HTTP_400_BAD_REQUEST
      [] outcome = "many_classes" -> HTTP_500_UNHANDLED
      [] OTHER -> HTTP_200_OK

\* the rows of ClassMetadata after delete_class: the function looks the
\* class up and returns its serialized form; it never calls delete()
ClassesAfterDelete(name, outcome) == classes

\* ClassMetadataSerializer(classMeta).data
ClassMetadataSerializer(row) == row

delete_class(name) ==
    LET outcome == DeleteClassOutcome(name)
    IN
    /\ resp = Idle
    /\ classes' = ClassesAfterDelete(name, outcome)
    /\ resp' = Response("delete_class", [name |-> name],
                        DeleteClassStatus(outcome),
                        [outcome |-> outcome,
                         class |-> IF outcome = "answered"
                                   THEN ClassMetadataSerializer(
                                            classes[TheClassNamed(name)])
                                   ELSE <<>>])
    /\ UNCHANGED <<scheds, clock, last_login, inflight>>

(***************************************************************************)
(* Schedules.  A POST parameter is a str; a row read from the table holds  *)
(* ints.  Python values are kept with their type: <<type, text>>.          *)
(***************************************************************************)
PyNone == <<"NoneType", "">>
PyStr(x) == <<"str", x>>
PyInt(n) == <<"int", ToString(n)>>
\* a model instance; two instances are equal when their primary keys are
PyRow(k) == <<"ClassMetadata", ToString(k)>>

\* the primary key of a model instance
RowPk(v) == CHOOSE k \in ClassIds : ToString(k) = v[2]

\* the times a schedule may hold
Times == {0, 1, 2}

\* int(text): the number a decimal text denotes, -1 when it denotes none
ParseInt(x) ==
    IF \E n \in Times : ToString(n) = x
    THEN CHOOSE n \in Times : ToString(n) = x
    ELSE -1

\* IntegerField.clean: an int stays, a str is parsed, None and any other
\* text are a ValidationError (-1)
CleanInt(v) ==
    CASE v[1] = "int" -> ParseInt(v[2])
      [] v[1] = "str" -> ParseInt(v[2])
      [] OTHER -> -1

\* time_start / time_end values a request may carry: decimal texts, and
\* "x", which is no number
TimeTexts == {ToString(n) : n \in Times}
TimeParams == {None, "x"} \cup TimeTexts

\* request.POST.get(...) as a Python value
PostValue(x) == IF x = None THEN PyNone ELSE PyStr(x)

\* uuid.uuid4() of the k-th schedule ever created
SchedUUID(k) == "s" \o ToString(k)

\* uuid values a request may carry: the rows, a uuid of no row, no uuid
UuidParams == {r.uuid : r \in scheds} \cup {SchedUUID(clock + 1), "zz"}

\* get_by_uuid(Schedule, 'Schedule', uuid)
SchedLookup(uuid) ==
    IF uuid = "zz" THEN "InvalidIdentifier"
    ELSE IF \E r \in scheds : r.uuid = uuid THEN "found"
    ELSE "NotFound"

TheSched(uuid) == CHOOSE r \in scheds : r.uuid = uuid

\* the Schedule instance built from a row: the fields edit_object may set
LoadSched(r) ==
    [classroom |-> PyRow(r.classroom),
     time_start |-> PyInt(r.time_start),
     time_end |-> PyInt(r.time_end)]

\* the declared mutable attributes of a Schedule
SchedFields == {"classroom", "time_start", "time_end"}

\* edit_object(obj, modifiedDict): the keys in the order of the dict; a key
\* that is no mutable field is skipped, a value equal to the current one is
\* skipped, any other value is assigned and its key recorded
RECURSIVE edit_object(_, _, _)
edit_object(obj, keys, dict) ==
    IF keys = <<>> THEN [obj |-> obj, modifiedList |-> <<>>]
    ELSE LET key == Head(keys)
             changed == key \in SchedFields /\ dict[key] # obj[key]
             rest == edit_object(IF changed THEN [obj EXCEPT ![key] = dict[key]]
                                 ELSE obj,
                                 Tail(keys), dict)
         IN [obj |-> rest.obj,
             modifiedList |-> IF changed THEN <<key>> \o rest.modifiedList
                              ELSE rest.modifiedList]

\* model_full_clean(sched): every field must clean
SchedFullCleanOk(obj) ==
    /\ CleanInt(obj.time_start) # -1
    /\ CleanInt(obj.time_end) # -1

\* a check that lets every pair of times through
TimeOrderOk_Always(time_start, time_end) == TRUE

\* if sched.time_end <= sched.time_start: raise ParseError
TimeOrderOk(time_start, time_end) == time_end > time_start

\* validate_sched(sched): "ValidationError", "ParseError" or "ok"
validate_sched(obj) ==
    IF ~SchedFullCleanOk(obj) THEN "ValidationError"
    ELSE IF ~TimeOrderOk(CleanInt(obj.time_start), CleanInt(obj.time_end))
    THEN "ParseError"
    ELSE "ok"

\* a save that writes the two times into each other's column
SavedRow_TimesSwapped(uuid, created, obj) ==
    [uuid |-> uuid,
     classroom |-> RowPk(obj.classroom),
     time_start |-> CleanInt(obj.time_end),
     time_end |-> CleanInt(obj.time_start),
     created |-> created,
     modified |-> Now]

\* sched.save(): the row written from the cleaned instance; the
\* AutoLastModifiedField stamps modified on every save
SavedRow(uuid, created, obj) ==
    [uuid |-> uuid,
     classroom |-> RowPk(obj.classroom),
     time_start |-> CleanInt(obj.time_start),
     time_end |-> CleanInt(obj.time_end),
     created |-> created,
     modified |-> Now]

\* class names a schedule request may carry ("n9" names no class)
ClassroomParams == ClassNames \cup {"n9"}

(***************************************************************************)
(* create_sched                                                            *)
(***************************************************************************)
CreateSchedOutcome(class_name, time_start, time_end) ==
    IF ClassLookup(class_name) = "DoesNotExist" THEN "no_class"
    ELSE IF ClassLookup(class_name) = "MultipleObjectsReturned" THEN "many_classes"
    ELSE IF validate_sched([time_start |-> PostValue(time_start),
                            time_end |-> PostValue(time_end)]) # "ok"
    THEN "invalid"
    ELSE "created"

SchedStatus(outcome) ==
    CASE outcome \in {"no_class", "no_sched", "no_student"}
           -> HTTP_404_NOT_FOUND
      [] outcome \in {"invalid", "bad_uuid"} -> HTTP_400_BAD_REQUEST
      [] outcome = "many_classes" -> HTTP_500_UNHANDLED
      [] outcome = "created" -> HTTP_201_CREATED
      [] outcome = "not_modified" -> HTTP_304_NOT_MODIFIED
      [] OTHER -> HTTP_200_OK

create_sched(class_name, time_start, time_end) ==
    LET req == [class_name |-> class_name, time_start |-> time_start,
                time_end |-> time_end]
        outcome == CreateSchedOutcome(class_name, time_start, time_end)
    IN
    /\ resp = Idle
    /\ resp' = Response("create_sched", req, SchedStatus(outcome),
                        [outcome |-> outcome])
    /\ UNCHANGED <<classes, last_login, inflight>>
    /\ IF outcome = "created"
       THEN /\ SchedSaves < MaxSaves
            /\ scheds' = scheds \cup
                 {SavedRow(SchedUUID(Now), Now,
                           [classroom |-> PyRow(TheClassNamed(class_name)),
                            time_start |-> PostValue(time_start),
                            time_end |-> PostValue(time_end)])}
            /\ clock' = Now
       ELSE UNCHANGED <<scheds, clock>>

(***************************************************************************)
(* edit_sched                                                              *)
(***************************************************************************)
\* the orders in which a request may list its optional parameters
KeyOrders == {<<"uuid", "classroom", "time_start", "time_end">>,
              <<"time_end", "time_start", "classroom", "uuid">>}

\* the keys of an order whose parameter was sent
RECURSIVE SentKeys(_, _)
SentKeys(order, req) ==
    IF order = <<>> THEN <<>>
    ELSE IF req[Head(order)] # None
         THEN <<Head(order)>> \o SentKeys(Tail(order), req)
         ELSE SentKeys(Tail(order), req)

\* modifiedDict: the POST values, classroom replaced by the class it names
ModifiedDict(req) ==
    [uuid |-> PostValue(req.uuid),
     classroom |-> IF req.classroom # None /\ ClassLookup(req.classroom) = "found"
                   THEN PyRow(TheClassNamed(req.classroom))
                   ELSE PyNone,
     time_start |-> PostValue(req.time_start),
     time_end |-> PostValue(req.time_end)]

\* the instance and the list edit_object leaves
EditedSched(req) ==
    edit_object(LoadSched(TheSched(req.uuid)), req.keys, ModifiedDict(req))

EditSchedOutcome(req) ==
    IF SchedLookup(req.uuid) = "InvalidIdentifier" THEN "bad_uuid"
    ELSE IF SchedLookup(req.uuid) = "NotFound" THEN "no_sched"
    ELSE IF req.classroom # None /\ ClassLookup(req.classroom) = "DoesNotExist"
    THEN "no_class"
    ELSE IF req.classroom # None
            /\ ClassLookup(req.classroom) = "MultipleObjectsReturned"
    THEN "many_classes"
    ELSE IF EditedSched(req).modifiedList = <<>> THEN "not_modified"
    ELSE IF validate_sched(EditedSched(req).obj) # "ok" THEN "invalid"
    ELSE "saved"

\* a save that does not wait for validate_sched
SchedsAfterEdit_SaveInvalid(req, outcome) ==
    IF outcome \in {"saved", "invalid"}
    THEN (scheds \ {TheSched(req.uuid)})
           \cup {SavedRow(req.uuid, TheSched(req.uuid).created,
                          EditedSched(req).obj)}
    ELSE scheds

\* a save that writes the edited schedule as a row of its own uuid
SchedsAfterEdit_NewUuid(req, outcome) ==
    IF outcome = "saved"
    THEN (scheds \ {TheSched(req.uuid)})
           \cup {SavedRow(SchedUUID(Now), TheSched(req.uuid).created,
                          EditedSched(req).obj)}
    ELSE scheds

\* an edit that answers without saving
SchedsAfterEdit_NoSave(req, outcome) == scheds

\* the Schedule rows after edit_sched: sched.save() runs only after
\* validate_sched has passed
SchedsAfterEdit(req, outcome) ==
    IF outcome = "saved"
    THEN (scheds \ {TheSched(req.uuid)})
           \cup {SavedRow(req.uuid, TheSched(req.uuid).created,
                          EditedSched(req).obj)}
    ELSE scheds

EditSched(req, again) ==
    LET outcome == EditSchedOutcome(req)
    IN
    /\ outcome = "saved" => SchedSaves < MaxSaves
    /\ scheds' = SchedsAfterEdit(req, outcome)
    /\ clock' = IF outcome = "saved" THEN Now ELSE clock
    /\ resp' = Response("edit_sched", req, SchedStatus(outcome),
                [outcome |-> outcome,
                 again |-> again,
                 modifiedList |->
                     IF outcome \in {"invalid", "saved"}
                     THEN Append(EditedSched(req).modifiedList, "modified")
                     ELSE <<>>])
    /\ UNCHANGED <<classes, last_login, inflight>>

edit_sched(uuid, order, classroom, time_start, time_end) ==
    LET sent == [uuid |-> uuid, classroom |-> classroom,
                 time_start |-> time_start, time_end |-> time_end]
    IN
    /\ resp = Idle
    /\ EditSched([uuid |-> uuid, keys |-> SentKeys(order, sent),
                  classroom |-> classroom, time_start |-> time_start,
                  time_end |-> time_end], FALSE)

\* the client sends the request it has just sent once more
edit_sched_again ==
    /\ resp.op = "edit_sched"
    /\ ~resp.data.again
    /\ EditSched(resp.req, TRUE)

(***************************************************************************)
(* delete_sched and get_sched                                              *)
(***************************************************************************)
delete_sched(uuid) ==
    LET outcome == CASE SchedLookup(uuid) = "InvalidIdentifier" -> "bad_uuid"
                     [] SchedLookup(uuid) = "NotFound" -> "no_sched"
                     [] OTHER -> "deleted"
    IN
    /\ resp = Idle
    /\ resp' = Response("delete_sched", [uuid |-> uuid], SchedStatus(outcome),
                        [outcome |-> outcome])
    /\ scheds' = IF outcome = "deleted" THEN scheds \ {TheSched(uuid)} ELSE scheds
    /\ UNCHANGED <<classes, clock, last_login, inflight>>

\* ScheduleSerializer(sched).data
ScheduleSerializer(r) == r

GetSched(uuid, after) ==
    LET outcome == CASE SchedLookup(uuid) = "InvalidIdentifier" -> "bad_uuid"
                     [] SchedLookup(uuid) = "NotFound" -> "no_sched"
                     [] OTHER -> "got"
    IN
    /\ resp' = Response("get_sched", [uuid |-> uuid], SchedStatus(outcome),
                        [outcome |-> outcome,
                         after |-> after,
                         sched |-> IF outcome = "got"
                                   THEN ScheduleSerializer(TheSched(uuid))
                                   ELSE <<>>])
    /\ UNCHANGED <<classes, scheds, clock, last_login, inflight>>

get_sched(uuid) ==
    /\ resp = Idle
    /\ GetSched(uuid, Idle)

\* the client reads a schedule back right after its edit was answered with
\* the list of modified fields
get_sched_after_edit ==
    /\ resp.op = "edit_sched"
    /\ resp.status = HTTP_200_OK
    /\ GetSched(resp.req.uuid, resp)

\* the client reads the schedule it has just created, by the uuid the row
\* was given
get_sched_after_create ==
    /\ resp.op = "create_sched"
    /\ resp.status = HTTP_201_CREATED
    /\ GetSched(SchedUUID(clock), resp)

(***************************************************************************)
(* list_sched                                                              *)
(***************************************************************************)
\* the uuid of the k-th class, as a request writes it
ClassUUID(k) == ToString(k)

\* get_by_uuid(ClassMetadata, 'Class', class_uuid)
ClassByUuid(x) ==
    IF x = "zz" THEN "InvalidIdentifier"
    ELSE IF \E k \in ClassIds : ClassUUID(classes[k].uuid) = x THEN "found"
    ELSE "NotFound"

TheClassWithUuid(x) == CHOOSE k \in ClassIds : ClassUUID(classes[k].uuid) = x

\* get_by_uuid(CustomUser, 'Student', student_uuid)
StudentByUuid(x) ==
    IF ParseUUID(x) = "Invalid" THEN "InvalidIdentifier"
    ELSE IF ParseUUID(x) \in Users THEN "found"
    ELSE "NotFound"

\* classMeta.schedule_set
ScheduleSet(k) == {r \in scheds : r.classroom = k}

\* student.student_classes.all()
StudentClasses(u) == {k \in ClassIds : u \in classes[k].students}

ListSchedOutcome(class_uuid, student_uuid) ==
    IF class_uuid # None
    THEN CASE ClassByUuid(class_uuid) = "InvalidIdentifier" -> "bad_uuid"
           [] ClassByUuid(class_uuid) = "NotFound" -> "no_class"
           [] OTHER -> "listed"
    ELSE IF student_uuid # None
    THEN CASE StudentByUuid(student_uuid) = "InvalidIdentifier" -> "bad_uuid"
           [] StudentByUuid(student_uuid) = "NotFound" -> "no_student"
           [] OTHER -> "listed"
    ELSE "listed"

\* a listing that looks at student_uuid before class_uuid
ListSchedResult_StudentFirst(class_uuid, student_uuid) ==
    IF student_uuid # None
    THEN UNION {ScheduleSet(k) : k \in StudentClasses(ParseUUID(student_uuid))}
    ELSE IF class_uuid # None
    THEN ScheduleSet(TheClassWithUuid(class_uuid))
    ELSE scheds

\* the schedules list_sched selects: class_uuid first, then student_uuid,
\* then every schedule
ListSchedResult(class_uuid, student_uuid) ==
    IF class_uuid # None
    THEN ScheduleSet(TheClassWithUuid(class_uuid))
    ELSE IF student_uuid # None
    THEN UNION {ScheduleSet(k) : k \in StudentClasses(ParseUUID(student_uuid))}
    ELSE scheds

list_sched(class_uuid, student_uuid) ==
    LET outcome == ListSchedOutcome(class_uuid, student_uuid)
    IN
    /\ resp = Idle
    /\ resp' = Response("list_sched",
                        [class_uuid |-> class_uuid, student_uuid |-> student_uuid],
                        SchedStatus(outcome),
                        [outcome |-> outcome,
                         scheds |-> IF outcome = "listed"
                                    THEN {ScheduleSerializer(r) :
                                            r \in ListSchedResult(class_uuid,
                                                                  student_uuid)}
                                    ELSE {}])
    /\ UNCHANGED <<classes, scheds, clock, last_login, inflight>>

(***************************************************************************)
(* app_auth: AuthView.post (login) and RefreshView.post.                   *)
(***************************************************************************)
\* the CustomUser rows: email (unique), password, is_active
Email(u) == IF u = "u1" THEN "e1" ELSE "e2"
Password(u) == IF u = "u1" THEN "p1" ELSE "p2"
IsActive(u) == u = "u1"

\* email and password values a login request may carry
EmailParams == {None, Blank, "e1", "e2", "e9"}
PasswordParams == {None, Blank, "p1", "p2"}

\* get_object_or_None(CustomUser, email=email)
UserByEmail(email) ==
    IF \E u \in Users : Email(u) = email
    THEN CHOOSE u \in Users : Email(u) = email
    ELSE None

\* check_password(password, encoded)
check_password(password, u) == password = Password(u)

\* settings.JWT_KEY and a key that is not it
JWT_KEY == "JWT_KEY"
OtherKey == "other key"

\* token lifetimes, in readings of the clock
AccessLifetime == 1
RefreshLifetime == 2

\* RefreshToken.for_user(user) and its access_token: a signed payload
for_user(typ, u, lifetime) ==
    [form |-> "jwt", typ |-> typ, uuid |-> u, exp |-> Now + lifetime,
     key |-> JWT_KEY]

\* the exception AuthView.post ends with, or "issued"
AuthOutcome(email, password) ==
    IF email \in {None, Blank} \/ password \in {None, Blank}
    THEN "NotAuthenticated"
    ELSE IF UserByEmail(email) = None THEN "NotFound"
    ELSE IF ~IsActive(UserByEmail(email)) THEN "NotFound"
    ELSE IF ~check_password(password, UserByEmail(email))
    THEN "AuthenticationFailed"
    ELSE "issued"

\* the status code of an APIException, 500 for any other exception
AuthStatus(outcome) ==
    CASE outcome \in {"NotAuthenticated", "AuthenticationFailed"}
           -> HTTP_401_UNAUTHORIZED
      [] outcome = "NotFound" -> HTTP_404_NOT_FOUND
      [] outcome = "ParseError" -> HTTP_400_BAD_REQUEST
      [] outcome = "issued" -> HTTP_200_OK
      [] OTHER -> HTTP_500_UNHANDLED

\* update_last_login(None, user)
update_last_login(u) == [last_login EXCEPT ![u] = Now]

\* a login that stamps last_login before it has checked the password
LastLoginAfter_Unchecked(email, outcome) ==
    IF outcome \in {"issued", "AuthenticationFailed"}
    THEN update_last_login(UserByEmail(email))
    ELSE last_login

\* last_login after AuthView.post
LastLoginAfter(email, outcome) ==
    IF outcome = "issued" THEN update_last_login(UserByEmail(email))
    ELSE last_login

AuthView_post(email, password) ==
    LET outcome == AuthOutcome(email, password)
    IN
    /\ resp = Idle
    /\ outcome = "issued" => clock < MaxLogins
    /\ last_login' = LastLoginAfter(email, outcome)
    /\ clock' = IF last_login' # last_login THEN Now ELSE clock
    /\ resp' = Response("AuthView_post", [email |-> email, password |-> password],
                        AuthStatus(outcome),
                        [outcome |-> outcome,
                         token |-> IF outcome = "issued"
                                   THEN [refresh |-> for_user("refresh",
                                             UserByEmail(email), RefreshLifetime),
                                         access |-> for_user("access",
                                             UserByEmail(email), AccessLifetime)]
                                   ELSE <<>>])
    /\ UNCHANGED <<classes, scheds, inflight>>

\* the refresh parameter: absent, blank, text that is no token, or a token
\* with any typ, uuid, expiry time and signing key
NoToken == [form |-> "None"]
BlankToken == [form |-> "blank"]
Malformed == [form |-> "malformed"]
TokenParams ==
    {NoToken, BlankToken, Malformed}
      \cup [form : {"jwt"},
            typ : {None, "refresh", "access"},
            uuid : {None, "u1", "u2", "u3", "zz"},
            exp : {0, MaxLogins + RefreshLifetime + 1},
            key : {JWT_KEY, OtherKey}]

\* a decoder that does not look at exp
Expired_Never(tok) == FALSE

\* jwt verifies exp against the current time
Expired(tok) == tok.exp <= clock

\* a check of the typ claim that lets access tokens through as well
TypOk_AnyTyp(tok) == tok.typ # None

\* payload.get('typ', None) != 'refresh'
TypOk(tok) == tok.typ = "refresh"

\* the exception RefreshView.post ends with, or "issued".  jwt.decode
\* first parses the token, then verifies the signature, then exp; only
\* ExpiredSignatureError is caught.  get_object_or_None catches only
\* DoesNotExist, so a uuid claim that is no uuid ends in ValidationError.
RefreshOutcome(tok) ==
    IF tok \in {NoToken, BlankToken} THEN "ParseError"
    ELSE IF tok = Malformed THEN "DecodeError"
    ELSE IF tok.key # JWT_KEY THEN "InvalidSignatureError"
    ELSE IF Expired(tok) THEN "AuthenticationFailed"
    ELSE IF ~TypOk(tok) THEN "ParseError"
    ELSE IF tok.uuid = None THEN "NotFound"
    ELSE IF ParseUUID(tok.uuid) = "Invalid" THEN "ValidationError"
    ELSE IF ParseUUID(tok.uuid) \notin Users THEN "NotFound"
    ELSE IF ~IsActive(ParseUUID(tok.uuid)) THEN "NotFound"
    ELSE "issued"

RefreshView(tok, after) ==
    LET outcome == RefreshOutcome(tok)
    IN
    /\ resp' = Response("RefreshView_post", [refresh |-> tok],
                        AuthStatus(outcome),
                        [outcome |-> outcome,
                         after |-> after,
                         token |-> IF outcome = "issued"
                                   THEN [access |-> for_user("access",
                                             ParseUUID(tok.uuid), AccessLifetime)]
                                   ELSE <<>>])
    /\ UNCHANGED <<classes, scheds, clock, last_login, inflight>>

RefreshView_post(tok) ==
    /\ resp = Idle
    /\ RefreshView(tok, Idle)

\* the client sends one of the two tokens it has just been issued
RefreshView_post_issued ==
    /\ resp.op = "AuthView_post"
    /\ resp.data.outcome = "issued"
    /\ \E kind \in {"refresh", "access"} :
           RefreshView(resp.data.token[kind], resp)

NextAuth ==
    \/ Respond
    \/ \E e \in EmailParams, p \in PasswordParams : AuthView_post(e, p)
    \/ \E t \in TokenParams : RefreshView_post(t)
    \/ RefreshView_post_issued

SpecAuth == Init /\ [][NextAuth]_vars

(***************************************************************************)
(* The whole store: classes, their edits, and the schedule requests.       *)
(***************************************************************************)
\* create_class requests: a class of either course, a second class of the
\* name of the first, with a teacher and a student, and one request for
\* each way of being refused
NoList == [given |-> FALSE, raw |-> <<>>]
CreateClassRequests ==
    {<<"c1", "n1", None, "open", NoList>>,
     <<"c2", "n2", None, "open", NoList>>,
     <<"c2", "n1", "u1", "open", [given |-> TRUE, raw |-> <<"u1">>]>>,
            <<"c9", "n1", None, "open", NoList>>,
            <<"c1", "n1", "u3", "open", NoList>>,
            <<"c1", "n1", "zz", "open", NoList>>,
            <<"c1", None, None, "open", NoList>>,
            <<"c1", Blank, None, "open", NoList>>,
            <<"c1", "n1", None, None, NoList>>,
            <<"c2", "n2", None, "open", [given |-> TRUE, raw |-> <<"zz">>]>>}

\* edit_class requests: every choice of name, teacher and status for one
\* class, and one request for each way of being refused
EditClassRequests ==
    {<<"n1", n, None, t, s>> : n \in {None, "n1", Blank},
                               t \in {None, "u1"}, s \in StatusParams}
      \cup {<<"n2", "n1", None, None, None>>,
            <<"n9", "n1", None, None, None>>,
            <<"n1", None, "c1", None, None>>,
            <<"n1", "n2", None, "u3", None>>,
            <<"n1", None, None, "zz", None>>}

\* add_student and delete_student requests: a student into and out of one
\* class, a user that does not exist, and a class that does not exist
RosterRequests ==
    {<<"n2", [given |-> TRUE, raw |-> <<"u1">>]>>,
     <<"n2", [given |-> TRUE, raw |-> <<"u3">>]>>,
     <<"n9", [given |-> TRUE, raw |-> <<"u1">>]>>}

\* list_sched requests: no parameter, either parameter, both, and one
\* request for each way of being refused
ListSchedRequests ==
    {<<None, None>>, <<"1", None>>, <<None, "u1">>, <<"1", "u1">>,
     <<"2", "zz">>, <<"zz", None>>, <<None, "u3">>, <<None, "zz">>}

\* create_sched requests: two spans of time for every class, and one
\* request for each way of being refused
CreateSchedRequests ==
    {<<cn, ts, te>> : cn \in ClassNames, ts \in {"0", "1"}, te \in {"1"}}
      \cup {<<cn, "1", "2">> : cn \in ClassNames}
      \cup {<<"n9", "0", "1">>, <<"n1", None, "1">>, <<"n1", "0", None>>,
            <<"n1", "x", "1">>, <<"n1", "0", "x">>}

\* the order in which a client lists the parameters unless said otherwise
PlainOrder == <<"uuid", "classroom", "time_start", "time_end">>

\* edit_sched requests: every change set on every row, two of them in the
\* other order, and one request for each way of being refused
EditSchedRequests ==
    {<<r.uuid, PlainOrder, cn, ts, te>> :
        r \in scheds, cn \in {None} \cup ClassNames,
        ts \in {None, "0", "1"}, te \in {None, "1", "2"}}
      \cup {<<r.uuid, o, None, ts, "2">> :
              r \in scheds, o \in KeyOrders \ {PlainOrder}, ts \in {"0", "1"}}
      \cup {<<r.uuid, PlainOrder, q[1], q[2], q[3]>> :
              r \in scheds, q \in {<<"n9", None, None>>, <<None, "x", None>>,
                                   <<None, None, "x">>}}
      \cup {<<u, PlainOrder, None, "1", None>> :
              u \in {SchedUUID(clock + 1), "zz"}}

Next ==
    \/ Respond
    \/ \E r \in CreateClassRequests : create_class(r[1], r[2], r[3], r[4], r[5])
    \/ \E r \in EditClassRequests : edit_class(r[1], r[2], r[3], r[4], r[5])
    \/ edit_class_again
    \/ \E r \in RosterRequests : add_student(r[1], r[2])
    \/ \E r \in RosterRequests : delete_student(r[1], r[2])
    \/ \E r \in CreateSchedRequests : create_sched(r[1], r[2], r[3])
    \/ \E r \in EditSchedRequests : edit_sched(r[1], r[2], r[3], r[4], r[5])
    \/ edit_sched_again
    \/ \E u \in UuidParams : delete_sched(u)
    \/ \E n \in ClassroomParams : delete_class(n)
    \/ \E u \in UuidParams : get_sched(u)
    \/ get_sched_after_edit
    \/ get_sched_after_create
    \/ \E r \in ListSchedRequests : list_sched(r[1], r[2])

Spec == Init /\ [][Next]_vars

(***************************************************************************)
(* edit_sched on two workers at once.  Each worker runs the handler of one *)
(* request in three steps: it reads the row (get_by_uuid), it edits and    *)
(* validates its own copy (edit_object, validate_sched), and it saves the  *)
(* copy (sched.save()).  Steps of the two workers interleave freely.       *)
(***************************************************************************)
\* get_by_uuid: the worker takes its request and reads the row
edit_sched_read(w, uuid, time_start, time_end) ==
    LET sent == [uuid |-> uuid, classroom |-> None,
                 time_start |-> time_start, time_end |-> time_end]
        req == [uuid |-> uuid, keys |-> SentKeys(PlainOrder, sent),
                classroom |-> None, time_start |-> time_start,
                time_end |-> time_end]
    IN
    /\ resp = Idle
    /\ inflight[w] = Waiting
    /\ SchedLookup(uuid) = "found"
    /\ inflight' = [inflight EXCEPT ![w] =
                      [pc |-> "read", req |-> req,
                       created |-> TheSched(uuid).created,
                       obj |-> LoadSched(TheSched(uuid)),
                       modifiedList |-> <<>>]]
    /\ UNCHANGED <<classes, scheds, clock, last_login, resp>>

\* edit_object and validate_sched on the worker's copy
edit_sched_validate(w) ==
    LET job == inflight[w]
        edited == edit_object(job.obj, job.req.keys, ModifiedDict(job.req))
        outcome == IF edited.modifiedList = <<>> THEN "not_modified"
                   ELSE IF validate_sched(edited.obj) # "ok" THEN "invalid"
                   ELSE "validated"
    IN
    /\ job.pc = "read"
    /\ inflight' = [inflight EXCEPT ![w] =
                      [job EXCEPT !.pc = outcome,
                                  !.obj = edited.obj,
                                  !.modifiedList =
                                      IF edited.modifiedList = <<>> THEN <<>>
                                      ELSE Append(edited.modifiedList, "modified")]]
    /\ UNCHANGED <<classes, scheds, clock, last_login, resp>>

\* a save that writes only the columns the request modified
RowToSave_ModifiedColumns(job) ==
    LET stored == TheSched(job.req.uuid)
        copy == SavedRow(job.req.uuid, job.created, job.obj)
    IN [f \in DOMAIN stored |->
          IF f \in Range(job.modifiedList) THEN copy[f] ELSE stored[f]]

\* sched.save(): every column of the row is written from the worker's copy
RowToSave(job) == SavedRow(job.req.uuid, job.created, job.obj)

edit_sched_save(w) ==
    LET job == inflight[w]
    IN
    /\ job.pc = "validated"
    /\ scheds' = {r \in scheds : r.uuid # job.req.uuid} \cup {RowToSave(job)}
    /\ clock' = Now
    /\ inflight' = [inflight EXCEPT ![w] = [job EXCEPT !.pc = "saved"]]
    /\ UNCHANGED <<classes, last_login, resp>>

\* the requests of the two workers: every choice of the two times
NextConcurrent ==
    \/ Respond
    \/ create_class("c1", "n1", None, "open", NoList)
    \/ \E te \in {"1", "2"} : create_sched("n1", "0", te)
    \/ \E w \in Workers, u \in UuidParams,
          ts \in {None, "0", "1"}, te \in {None, "1", "2"} :
           edit_sched_read(w, u, ts, te)
    \/ \E w \in Workers : edit_sched_validate(w)
    \/ \E w \in Workers : edit_sched_save(w)

SpecConcurrent == Init /\ [][NextConcurrent]_vars

(***************************************************************************)
(* Roster reconciliation: the claims.                                      *)
(***************************************************************************)
\* the pieces of the list the request in r carries under parameter p
ReqPieces(r, p) == SplitList(r.req[p].raw)

\* C1: delete_student is all-or-nothing: a request either removes every
\* identifier of its list, all of them enrolled before, or leaves every
\* roster (the whole class table) as it was.
C1_DeleteAllOrNothing ==
    [][resp'.op = "delete_student" =>
         \/ classes' = classes
         \/ /\ ClassLookup(resp'.req.name) = "found"
            /\ AllWellFormed(ReqPieces(resp', "uuids"))
            /\ LET k == TheClassNamed(resp'.req.name)
                   L == ParsedSet(ReqPieces(resp', "uuids"))
               IN /\ L \subseteq classes[k].students
                  /\ classes' = [classes EXCEPT ![k].students = @ \ L]]_vars

\* a partial list was answered: one identifier enrolled, another one not
C1_Witness ==
    /\ resp.op = "delete_student"
    /\ "not_found" \in DOMAIN resp.data
    /\ LET roster == classes[TheClassNamed(resp.req.name)].students
           L == ParsedSet(ReqPieces(resp, "uuids"))
       IN L \cap roster # {} /\ L \ roster # {}

\* C2: when an identifier of the list is not enrolled, not_found is exactly
\* the set of submitted identifiers that are not enrolled.
C2_NotFoundIsTheMissingSet ==
    [][(/\ resp'.op = "delete_student"
        /\ resp'.req.uuids.given
        /\ ClassLookup(resp'.req.name) = "found"
        /\ AllWellFormed(ReqPieces(resp', "uuids"))
        /\ ParsedSet(ReqPieces(resp', "uuids"))
               \ classes[TheClassNamed(resp'.req.name)].students # {})
       => /\ "not_found" \in DOMAIN resp'.data
          /\ resp'.data.not_found =
               {t \in Range(ReqPieces(resp', "uuids")) :
                   ParseUUID(t) \notin classes[TheClassNamed(resp'.req.name)].students}]_vars

\* C3: a delete_student request whose identifiers are not all enrolled is
\* answered with a client-error status (4xx), never with a success status.
C3_PartialMatchIsClientError ==
    (resp.op = "delete_student" /\ "not_found" \in DOMAIN resp.data)
    => resp.status \in 400..499

\* the identifiers of a list that resolve to existing users
Resolved(toks) == {u \in Users : \E i \in 1..Len(toks) : ParseUUID(toks[i]) = u}

\* C4: create_class with std_uuids and add_student with uuids add, and
\* report in students_added, exactly the submitted identifiers that resolve
\* to existing users; an identifier that resolves to no user does not make
\* the request fail.
C4_AddExactlyTheResolvable ==
    [][/\ (/\ resp'.op = "create_class"
           /\ resp'.req.std_uuids.given
           /\ AllWellFormed(ReqPieces(resp', "std_uuids"))
           /\ resp'.req.course_name \in Courses
           /\ resp'.req.teacher_uuid \in {None} \cup Users
           /\ ClassFullCleanOk(resp'.req.name, resp'.req.status,
                               resp'.req.course_name, 0))
          => /\ resp'.status = HTTP_201_CREATED
             /\ Len(classes') = Len(classes) + 1
             /\ SubSeq(classes', 1, Len(classes)) = classes
             /\ classes'[Len(classes')].students
                    = Resolved(ReqPieces(resp', "std_uuids"))
             /\ resp'.data.students_added
                    = Resolved(ReqPieces(resp', "std_uuids"))
       /\ (/\ resp'.op = "add_student"
           /\ resp'.req.uuids.given
           /\ AllWellFormed(ReqPieces(resp', "uuids"))
           /\ ClassLookup(resp'.req.name) = "found")
          => /\ resp'.status = HTTP_202_ACCEPTED
             /\ classes' = [classes EXCEPT ![TheClassNamed(resp'.req.name)].students
                                = @ \cup Resolved(ReqPieces(resp', "uuids"))]
             /\ resp'.data.students_added
                    = Resolved(ReqPieces(resp', "uuids"))]_vars

\* a class was created from a list that names a user and an unknown uuid
C4_Witness ==
    /\ resp.op = "create_class"
    /\ resp.status = HTTP_201_CREATED
    /\ "u3" \in Range(ReqPieces(resp, "std_uuids"))
    /\ resp.data.students_added # {}
    /\ classes[Len(classes)].students = resp.data.students_added

(***************************************************************************)
(* Validation and edits: the claims.                                       *)
(***************************************************************************)
\* C5: no invalid schedule is ever persisted: after any sequence of
\* create_sched, edit_sched and delete_sched requests every schedule in the
\* store has time_end > time_start.
C5_NoInvalidSchedulePersisted ==
    \A r \in scheds : r.time_end > r.time_start

\* an edit of the times of a schedule was validated and saved
C5_Witness ==
    /\ resp.op = "edit_sched"
    /\ resp.data.outcome = "saved"
    /\ "time_end" \in Range(resp.data.modifiedList)
    /\ \E r \in scheds : r.uuid = resp.req.uuid /\ r.modified = clock

\* the response r reports a failed validation
ValidationFailed(r) ==
    /\ r.op \in {"create_class", "create_sched", "edit_sched", "edit_class"}
    /\ \/ r.data.outcome = "invalid"
       \/ r.op = "create_class" /\ r.data.outcome \in {"bad_teacher", "bad_uuid"}

\* C6: a create or edit request (create_class, create_sched, edit_sched,
\* edit_class) that fails validation leaves the store unchanged: no entity
\* is created, no stored field and no roster changes.
C6_FailedValidationLeavesStore ==
    [][ValidationFailed(resp') => classes' = classes /\ scheds' = scheds]_vars

\* an edit that moved the end of a stored schedule before its start was
\* refused
C6_Witness ==
    /\ resp.op = "edit_sched"
    /\ resp.data.outcome = "invalid"
    /\ resp.status = HTTP_400_BAD_REQUEST
    /\ resp.data.modifiedList # <<>>
    /\ \A k \in {"time_start", "time_end"} : resp.req[k] \in {None} \cup TimeTexts

\* the fields of class k whose value in request r differs from the stored one
ClassChanged(k, r) ==
    {f \in {"name", "course", "teacher", "status"} :
        CASE f = "name" -> r.name # None /\ r.name # classes[k].name
          [] f = "course" -> r.course_name # None
                               /\ r.course_name # classes[k].course
          [] f = "teacher" -> r.teacher_uuid # None
                                /\ ParseUUID(r.teacher_uuid) # classes[k].teacher
          [] f = "status" -> r.status # None /\ r.status # classes[k].status}

\* C7: the modified list of an edit_class request holds, besides the name of
\* the timestamp, exactly the fields whose submitted value differs from the
\* value the class had before the request.
C7_ModifiedListIsTheChangedFields ==
    [][(resp'.op = "edit_class" /\ resp'.data.outcome = "answered")
       => Range(resp'.data.modifiedList) \ {"updated_at"}
            = ClassChanged(TheClassNamed(resp'.req.class_name), resp'.req)]_vars

\* C8: editing is idempotent: when an edit request that was not refused is
\* sent a second time in a row, the second one has an empty modification
\* list and changes no stored field, the update timestamp included.
C8_SecondIdenticalEditChangesNothing ==
    [][(/\ resp'.op \in {"edit_sched", "edit_class"}
        /\ resp'.data.again
        /\ resp.data.outcome \in {"answered", "saved", "not_modified"})
       => /\ resp'.data.modifiedList = <<>>
          /\ classes' = classes
          /\ scheds' = scheds]_vars

\* the fields of schedule row s whose value in request r differs from the
\* stored one
SchedChanged(s, r) ==
    {f \in SchedFields :
        CASE f = "classroom" -> r.classroom # None
                                  /\ TheClassNamed(r.classroom) # s.classroom
          [] f = "time_start" -> r.time_start # None
                                   /\ ParseInt(r.time_start) # s.time_start
          [] f = "time_end" -> r.time_end # None
                                 /\ ParseInt(r.time_end) # s.time_end}

\* C9: an edit request whose change set is empty (no optional field sent, or
\* every sent value equal to the stored one) is answered "not modified",
\* neither stamps nor reports the update timestamp, and leaves every stored
\* field unchanged.
C9_EmptyChangeSetIsNotModified ==
    [][/\ (/\ resp'.op = "edit_class"
           /\ ClassLookup(resp'.req.class_name) = "found"
           /\ ClassChanged(TheClassNamed(resp'.req.class_name), resp'.req) = {})
          => /\ resp'.status = HTTP_304_NOT_MODIFIED
             /\ "updated_at" \notin Range(resp'.data.modifiedList)
             /\ classes' = classes
       /\ (/\ resp'.op = "edit_sched"
           /\ SchedLookup(resp'.req.uuid) = "found"
           /\ resp'.req.classroom # None
                => ClassLookup(resp'.req.classroom) = "found"
           /\ SchedChanged(TheSched(resp'.req.uuid), resp'.req) = {})
          => /\ resp'.status = HTTP_304_NOT_MODIFIED
             /\ "modified" \notin Range(resp'.data.modifiedList)
             /\ scheds' = scheds]_vars

\* the value request r of edit_sched submitted for field key, as the table
\* stores it
SubmittedValue(r, key) ==
    CASE key = "classroom" -> TheClassNamed(r.classroom)
      [] key = "time_start" -> ParseInt(r.time_start)
      [] key = "time_end" -> ParseInt(r.time_end)
      [] key = "modified" -> clock

C11_DeleteRemovesExactlyTheAddressed ==
    [][/\ (resp'.op = "delete_sched" /\ resp'.status \in 200..299)
          => /\ \A r \in scheds' : r.uuid # resp'.req.uuid
             /\ Cardinality(scheds') = Cardinality(scheds) - 1
             /\ scheds' \subseteq scheds
       /\ (resp'.op = "delete_class" /\ resp'.status \in 200..299)
          => /\ \A k \in 1..Len(classes') : classes'[k].name # resp'.req.name
             /\ Len(classes') = Len(classes) - 1
             /\ \A k \in 1..Len(classes') : \E j \in ClassIds :
                    classes'[k] = classes[j]]_vars

\* C12: round trip: after a successful create_sched, getting the created
\* schedule by its uuid succeeds and returns a record with that uuid whose
\* classroom, time_start and time_end are the submitted ones.
C12_CreateThenGetRoundTrip ==
    (resp.op = "get_sched" /\ resp.data.after.op = "create_sched")
    => /\ resp.data.outcome = "got"
       /\ resp.data.sched.uuid = resp.req.uuid
       /\ resp.data.sched.classroom
            = TheClassNamed(resp.data.after.req.class_name)
       /\ resp.data.sched.time_start = ParseInt(resp.data.after.req.time_start)
       /\ resp.data.sched.time_end = ParseInt(resp.data.after.req.time_end)

\* a schedule from 1 to 2 was created and read back while another schedule
\* was stored
C12_Witness ==
    /\ resp.op = "get_sched"
    /\ resp.data.after.op = "create_sched"
    /\ resp.data.outcome = "got"
    /\ resp.data.after.req.time_start = "1"
    /\ resp.data.sched.time_end = 2
    /\ Cardinality(scheds) = 2

\* C13: the uuid of an entity never changes after creation: an edit_class,
\* edit_sched, add_student or delete_student request (an edit request
\* carries a uuid parameter) leaves every stored class and every stored
\* schedule with the uuid it had.
C13_UuidIsImmutable ==
    [][resp'.op \in {"edit_class", "edit_sched", "add_student", "delete_student"}
       => /\ Len(classes') = Len(classes)
          /\ \A k \in ClassIds : classes'[k].uuid = classes[k].uuid
          /\ Cardinality(scheds') = Cardinality(scheds)
          /\ \A r \in scheds : \E q \in scheds' :
                 q.uuid = r.uuid /\ q.created = r.created]_vars

\* an edit that carried the uuid among its parameters was saved
C13_Witness ==
    /\ resp.op = "edit_sched"
    /\ resp.data.outcome = "saved"
    /\ "uuid" \in Range(resp.req.keys)
    /\ \E r \in scheds : r.uuid = resp.req.uuid /\ r.modified = clock
                           /\ r.created < clock

(***************************************************************************)
(* Tokens: the claims.                                                     *)
(***************************************************************************)
\* tok is a token signed with the server's key
Signed(tok) == tok.form = "jwt" /\ tok.key = JWT_KEY

\* C14: a refresh request that carries an expired refresh token is answered
\* with AuthenticationFailed (401) and no new access token is issued.
C14_ExpiredRefreshIsRefused ==
    (/\ resp.op = "RefreshView_post"
     /\ Signed(resp.req.refresh)
     /\ resp.req.refresh.typ = "refresh"
     /\ resp.req.refresh.exp <= clock)
    => /\ resp.data.outcome = "AuthenticationFailed"
       /\ resp.status = HTTP_401_UNAUTHORIZED
       /\ resp.data.token = <<>>

\* an expired refresh token of an existing, active user was refused
C14_Witness ==
    /\ resp.op = "RefreshView_post"
    /\ Signed(resp.req.refresh)
    /\ resp.req.refresh.typ = "refresh"
    /\ resp.req.refresh.exp <= clock
    /\ resp.req.refresh.uuid = "u1"
    /\ resp.data.outcome = "AuthenticationFailed"

\* the token names an existing, active user
NamesActiveUser(tok) ==
    /\ tok.uuid # None
    /\ ParseUUID(tok.uuid) \in Users
    /\ IsActive(ParseUUID(tok.uuid))

\* C15: RefreshView.post issues a new access token only if the submitted
\* token has a valid signature, is not expired, carries typ = refresh and
\* names an existing, active user; in every other case the request ends in
\* an error and no access token is returned.
C15_RefreshIssuesOnlyForValidToken ==
    resp.op = "RefreshView_post"
    => LET tok == resp.req.refresh
           valid == /\ Signed(tok)
                    /\ tok.exp > clock
                    /\ tok.typ = "refresh"
                    /\ NamesActiveUser(tok)
       IN IF valid
          THEN /\ resp.status = HTTP_200_OK
               /\ resp.data.token.access.typ = "access"
               /\ resp.data.token.access.uuid = ParseUUID(tok.uuid)
          ELSE /\ resp.status >= 400
               /\ resp.data.token = <<>>

\* the access token that a login had just issued was sent as a refresh
\* token and refused
C15_Witness ==
    /\ resp.op = "RefreshView_post"
    /\ resp.data.after.op = "AuthView_post"
    /\ resp.req.refresh = resp.data.after.data.token.access
    /\ resp.data.outcome = "ParseError"
    /\ resp.data.token = <<>>

\* C16: AuthView.post issues a refresh/access token pair and updates the
\* user's last_login if and only if email and password are both supplied, a
\* user with that email exists, is active, and the password matches;
\* otherwise it fails (missing field: NotAuthenticated; unknown or inactive
\* user: NotFound; wrong password: AuthenticationFailed), issues no token
\* and leaves last_login unchanged.
C16_LoginIssuesIffCredentialsMatch ==
    [][resp'.op = "AuthView_post"
       => LET email == resp'.req.email
              password == resp'.req.password
              missing == email \in {None, Blank} \/ password \in {None, Blank}
              known == \E u \in Users : Email(u) = email /\ IsActive(u)
              matches == \E u \in Users : /\ Email(u) = email
                                          /\ Password(u) = password
          IN IF ~missing /\ known /\ matches
             THEN LET u == CHOOSE u \in Users : Email(u) = email
                  IN /\ resp'.status = HTTP_200_OK
                     /\ resp'.data.token.refresh.typ = "refresh"
                     /\ resp'.data.token.refresh.uuid = u
                     /\ resp'.data.token.access.typ = "access"
                     /\ resp'.data.token.access.uuid = u
                     /\ last_login'[u] > last_login[u]
                     /\ \A v \in Users \ {u} : last_login'[v] = last_login[v]
             ELSE /\ resp'.data.token = <<>>
                  /\ last_login' = last_login
                  /\ resp'.data.outcome =
                       IF missing THEN "NotAuthenticated"
                       ELSE IF ~known THEN "NotFound"
                       ELSE "AuthenticationFailed"]_vars

\* a user who had logged in before logged in again
C16_Witness ==
    /\ resp.op = "AuthView_post"
    /\ resp.data.outcome = "issued"
    /\ last_login["u1"] = clock
    /\ clock > 1

(***************************************************************************)
(* Missing entities, edit lists, listings, duplicates: the claims.         *)
(***************************************************************************)
\* the request answered by r addressed an entity that was not stored
AddressedMissing(r) ==
    CASE r.op = "create_class" -> r.req.course_name \notin Courses
      [] r.op \in {"add_student", "delete_student", "delete_class"}
           -> ClassLookup(r.req.name) = "DoesNotExist"
      [] r.op = "edit_class" -> ClassLookup(r.req.class_name) = "DoesNotExist"
      [] r.op = "create_sched" -> ClassLookup(r.req.class_name) = "DoesNotExist"
      [] r.op \in {"edit_sched", "delete_sched", "get_sched"}
           -> SchedLookup(r.req.uuid) = "NotFound"
      [] OTHER -> FALSE

\* C17: every operation that addresses an entity which does not exist (an
\* unknown course_name, class name or schedule uuid) fails with a NotFound
\* outcome (404) and has no side effect on the store.
C17_MissingEntityIsNotFound ==
    [][AddressedMissing(resp')
       => /\ resp'.status = HTTP_404_NOT_FOUND
          /\ classes' = classes
          /\ scheds' = scheds]_vars

\* the entries of a modification list other than the timestamp name
Recorded(list, stamp) == SelectSeq(list, LAMBDA x : x # stamp)

\* the place of x in the sequence order
Place(order, x) == CHOOSE i \in 1..Len(order) : order[i] = x

\* the entries of list appear in the order in which order holds them
InOrderOf(list, order) ==
    /\ Range(list) \subseteq Range(order)
    /\ \A i, j \in 1..Len(list) :
           i < j => Place(order, list[i]) < Place(order, list[j])

\* the stamp is the last entry of list exactly when a field was recorded
StampLastIffRecorded(list, stamp) ==
    /\ Recorded(list, stamp) # <<>>
         <=> (list # <<>> /\ list[Len(list)] = stamp)
    /\ Recorded(list, stamp) = <<>> => list = <<>>

\* C18: in an edit request that is not refused, the update timestamp of the
\* entity is stamped, and its name is the last entry of the modification
\* list, if and only if at least one optional field was recorded as
\* changed; fields the request did not supply keep their values; the
\* recorded names are in the order in which the fields were processed.
C18_StampIffRecorded ==
    [][/\ (resp'.op = "edit_class" /\ resp'.data.outcome = "answered")
          => LET k == TheClassNamed(resp'.req.class_name)
                 list == resp'.data.modifiedList
             IN /\ StampLastIffRecorded(list, "updated_at")
                /\ Recorded(list, "updated_at") # <<>>
                     <=> classes'[k].updated_at # classes[k].updated_at
                /\ resp'.req.name = None => classes'[k].name = classes[k].name
                /\ resp'.req.status = None
                     => classes'[k].status = classes[k].status
                /\ resp'.req.teacher_uuid = None
                     => classes'[k].teacher = classes[k].teacher
                /\ InOrderOf(Recorded(list, "updated_at"),
                             <<"name", "course", "teacher", "status">>)
       /\ (resp'.op = "edit_sched"
             /\ resp'.data.outcome \in {"saved", "not_modified"})
          => LET old == TheSched(resp'.req.uuid)
                 new == CHOOSE r \in scheds' : r.uuid = resp'.req.uuid
                 list == resp'.data.modifiedList
             IN /\ StampLastIffRecorded(list, "modified")
                /\ Recorded(list, "modified") # <<>>
                     <=> new.modified # old.modified
                /\ \A f \in SchedFields : resp'.req[f] = None => new[f] = old[f]
                /\ InOrderOf(Recorded(list, "modified"), resp'.req.keys)]_vars

\* the schedules of the classes that have user u enrolled
SchedulesOfStudent(u) ==
    {r \in scheds : u \in classes[r.classroom].students}

\* C19: list_sched selects by parameter priority: with class_uuid the
\* result is exactly the schedules of that class (student_uuid is ignored);
\* otherwise with student_uuid it is exactly the schedules of all classes
\* that have the student enrolled; with neither it is every schedule.
C19_ListSchedPriority ==
    resp.op = "list_sched"
    => LET c == resp.req.class_uuid
           u == resp.req.student_uuid
       IN IF c # None
          THEN (\E k \in ClassIds : ClassUUID(classes[k].uuid) = c)
               => /\ resp.status = HTTP_200_OK
                  /\ \E k \in ClassIds :
                       /\ ClassUUID(classes[k].uuid) = c
                       /\ resp.data.scheds = {r \in scheds : r.classroom = k}
          ELSE IF u # None
          THEN ParseUUID(u) \in Users
               => /\ resp.status = HTTP_200_OK
                  /\ resp.data.scheds = SchedulesOfStudent(ParseUUID(u))
          ELSE /\ resp.status = HTTP_200_OK
               /\ resp.data.scheds = scheds

\* both parameters were sent, the class has a schedule, and the student is
\* enrolled in another class whose schedule is not in the result
C19_Witness ==
    /\ resp.op = "list_sched"
    /\ resp.req.class_uuid # None
    /\ resp.req.student_uuid = "u1"
    /\ resp.data.scheds # {}
    /\ SchedulesOfStudent("u1") # {}
    /\ resp.data.scheds \cap SchedulesOfStudent("u1") = {}

\* C20: a delete_student request whose list names only enrolled students
\* and names one of them more than once is treated as a partial match: no
\* student is removed and the reported not_found set is empty.
C20_DuplicateIsPartialMatch ==
    [][(/\ resp'.op = "delete_student"
        /\ resp'.req.uuids.given
        /\ ClassLookup(resp'.req.name) = "found"
        /\ AllWellFormed(ReqPieces(resp', "uuids"))
        /\ ParsedSet(ReqPieces(resp', "uuids"))
             \subseteq classes[TheClassNamed(resp'.req.name)].students
        /\ Cardinality(ParsedSet(ReqPieces(resp', "uuids")))
             < Len(ReqPieces(resp', "uuids")))
       => /\ classes' = classes
          /\ "not_found" \in DOMAIN resp'.data
          /\ resp'.data.not_found = {}]_vars

(***************************************************************************)
(* Concurrent edits: the claim.                                            *)
(***************************************************************************)
\* worker w saves in this step
Saves(w) == inflight[w].pc = "validated" /\ inflight'[w].pc = "saved"

\* C21: under any interleaving of two concurrent edit_sched requests on the
\* same schedule, every state of the store has time_end > time_start for
\* every schedule; each save writes the whole row from the saver's own
\* validated copy, so the later save overwrites the fields the earlier one
\* changed (a lost update).
C21_ConcurrentEditsKeepTimeOrder ==
    [][/\ \A r \in scheds' : r.time_end > r.time_start
       /\ \A w \in Workers :
            Saves(w)
            => \E r \in scheds' :
                 /\ r.uuid = inflight[w].req.uuid
                 /\ r.classroom = RowPk(inflight[w].obj.classroom)
                 /\ r.time_start = CleanInt(inflight[w].obj.time_start)
                 /\ r.time_end = CleanInt(inflight[w].obj.time_end)
                 /\ \A q \in scheds' : q.uuid = r.uuid => q = r]_vars

\* both workers saved the same schedule; the start one of them wrote is
\* gone, and together with the end the other one wrote it would have been
\* no valid schedule
C21_Witness ==
    \E w, v \in Workers :
        /\ w # v
        /\ inflight[w].pc = "saved"
        /\ inflight[v].pc = "saved"
        /\ inflight[w].req.uuid = inflight[v].req.uuid
        /\ "time_start" \in Range(inflight[w].modifiedList)
        /\ "time_end" \in Range(inflight[v].modifiedList)
        /\ \E r \in scheds :
             /\ r.uuid = inflight[w].req.uuid
             /\ r.time_start # CleanInt(inflight[w].obj.time_start)
             /\ r.time_end = CleanInt(inflight[v].obj.time_end)
             /\ CleanInt(inflight[w].obj.time_start) >= r.time_end

====
